---- MODULE Spec2Model ----
(***************************************************************************)
(* MiniGit (src/minigit.py): a content-addressed object store, a staging   *)
(* index, a per-branch reference log and whole-repository clone, modelled   *)
(* as operations on a small file system.                                    *)
(*                                                                          *)
(* Bytes are sequences of lines; a line is <<text, hash>>, the text before  *)
(* the trailing hash token and that token (0 when the line has none).  So   *)
(* the index line "a.txt <hash>\n" and a working file holding exactly those *)
(* bytes are the same value, and sha1 gives them the same identifier.       *)
(***************************************************************************)
EXTENDS Integers, Sequences, FiniteSets, TLC

VARIABLES
    tree,       \* the file system: per directory, its working files and .minigit
    committed,  \* per directory, the messages given to its successful commits
    out,        \* what the last command was and what it reported
    ops         \* how many commands have changed the file system so far

vars == <<tree, committed, out, ops>>

(* ---------------------------- bounds ----------------------------------- *)

MaxOps == 7          \* commands of one run that change the file system

(* ------------------------- input universes ------------------------------ *)

Cwd == "."
Targets == {"cloned_repo"}
Dirs == {Cwd} \cup Targets

PathSeq == <<"a.txt", "b.txt">>
Paths == {PathSeq[i] : i \in 1..Len(PathSeq)}

Messages == {"first", "second"}

NoHash == 0
RawLine(text) == <<text, NoHash>>

\* File contents a user may write: two plain ones, and one that is byte for
\* byte the index line of a.txt staged with the first content.
ContentSeq == << <<RawLine("hello")>>, <<RawLine("world")>>, << <<"a.txt", 1>> >> >>
Contents == {ContentSeq[i] : i \in 1..Len(ContentSeq)}

\* The files the user writes: a.txt and b.txt with the same plain content,
\* a.txt with new content, b.txt with the index-shaped content.
FileInputs == {<<"a.txt", ContentSeq[1]>>, <<"a.txt", ContentSeq[2]>>,
               <<"b.txt", ContentSeq[1]>>, <<"b.txt", ContentSeq[3]>>}

(* ------------------------------ hashing --------------------------------- *)

\* hashlib.sha1(...).hexdigest(): a collision-free numbering of the byte
\* strings of the model.  The file contents are numbered 1..Len(ContentSeq);
\* every other byte string (a serialized index) gets a number above them, by
\* a positional code of its lines.
HashBase == 16

PathCode(p) == CHOOSE i \in 1..Len(PathSeq) : PathSeq[i] = p

LineCode(line) == PathCode(line[1]) + Len(PathSeq) * line[2]

RECURSIVE BytesCode(_)
BytesCode(bytes) ==
    IF bytes = <<>> THEN 0
    ELSE BytesCode(SubSeq(bytes, 1, Len(bytes) - 1)) * HashBase
           + LineCode(bytes[Len(bytes)])

sha1(bytes) ==
    IF \E i \in 1..Len(ContentSeq) : ContentSeq[i] = bytes
    THEN CHOOSE i \in 1..Len(ContentSeq) : ContentSeq[i] = bytes
    ELSE Len(ContentSeq) + 1 + BytesCode(bytes)

(* --------------------------- repository state --------------------------- *)

\* The .minigit directory of one location.  objects and refs are functions
\* whose domain is the set of files that exist (objects/<hash>,
\* refs_<branch>.txt).
NoRepo ==
    [repo_dir |-> FALSE, objects_dir |-> FALSE, objects |-> <<>>,
     index_file |-> FALSE, index |-> <<>>,
     head_file |-> FALSE, HEAD |-> "", refs |-> <<>>]

NoDir == [exists |-> FALSE, files |-> <<>>, minigit |-> NoRepo]

Repo(d) == tree[d].minigit

\* f with key k set to v, whether or not k is already in its domain
Put(f, k, v) == [x \in DOMAIN f \cup {k} |-> IF x = k THEN v ELSE f[x]]

branch_path(r) == r.HEAD

RefLog(r) == IF branch_path(r) \in DOMAIN r.refs THEN r.refs[branch_path(r)] ELSE <<>>

\* the command that ran last: the directory it ran in, its name and argument,
\* what it reported, and the entries it listed (log)
Result(d, op, arg, status, lines) ==
    [cwd |-> d, op |-> op, arg |-> arg, status |-> status, lines |-> lines]

\* one .minigit shared by every directory that has a repository
SetRepoShared(d, r) ==
    [e \in Dirs |->
        IF e = d \/ tree[e].minigit.repo_dir
        THEN [tree[e] EXCEPT !.minigit = r] ELSE tree[e]]

\* the files of the .minigit of directory d, and of no other, are written
SetRepo(d, r) == [tree EXCEPT ![d].minigit = r]

\* a command that changes the file system uses up one of the run's MaxOps
Changes == ops < MaxOps /\ ops' = ops + 1

(* -------------------------------- init --------------------------------- *)

\* an init that does not write HEAD
InitRepoNoHead(r) ==
    [r EXCEPT !.repo_dir = TRUE, !.objects_dir = TRUE,
              !.index_file = TRUE, !.index = <<>>]

\* os.makedirs(objects_dir); open(index_file, "w"); HEAD gets "main\n"
InitRepo(r) ==
    [r EXCEPT !.repo_dir = TRUE, !.objects_dir = TRUE,
              !.index_file = TRUE, !.index = <<>>,
              !.head_file = TRUE, !.HEAD = "main"]

init(d) ==
    /\ tree[d].exists
    /\ IF Repo(d).repo_dir
       THEN /\ out' = Result(d, "init", "", "AlreadyInitialized", <<>>)
            /\ UNCHANGED <<tree, committed, ops>>
       ELSE /\ Changes
            /\ tree' = SetRepo(d, InitRepo(Repo(d)))
            /\ out' = Result(d, "init", "", "ok", <<>>)
            /\ UNCHANGED committed

(* -------------------------------- add ---------------------------------- *)

\* a check that takes every path to exist
FileExistsAlways(d, p) == TRUE

\* os.path.exists(filepath)
FileExists(d, p) == p \in DOMAIN tree[d].files

ReadFile(d, p) == IF p \in DOMAIN tree[d].files THEN tree[d].files[p] ELSE <<>>

hash_file(d, p) == sha1(ReadFile(d, p))

\* a copy that creates the directories it needs
BlobDirMissingNever(r) == FALSE

\* shutil.copy raises when the objects directory is missing (no blob can
\* exist there, so the copy is always tried)
BlobDirMissing(r) == ~r.objects_dir

\* if not os.path.exists(blob_path): shutil.copy(filepath, blob_path)
StoreBlob(objects, h, bytes) ==
    IF h \in DOMAIN objects THEN objects ELSE Put(objects, h, bytes)

\* an index that keeps one entry per content hash
AppendIndexDedup(index, p, h) ==
    IF \E i \in 1..Len(index) : index[i][2] = h THEN index
    ELSE Append(index, <<p, h>>)

\* an index that keeps one entry per path, the latest
AppendIndexReplace(index, p, h) ==
    Append(SelectSeq(index, LAMBDA e : e[1] # p), <<p, h>>)

\* open(index_file, "a"); write "<filepath> <hash>\n"
AppendIndex(index, p, h) == Append(index, <<p, h>>)

add(d, p) ==
    /\ tree[d].exists
    /\ LET r == Repo(d)
           h == hash_file(d, p)
       IN IF ~FileExists(d, p)
          THEN /\ out' = Result(d, "add", p, "FileNotFound", <<>>)
               /\ UNCHANGED <<tree, committed, ops>>
          ELSE IF BlobDirMissing(r)
          THEN \* the exception ends the command before the index is opened
               /\ out' = Result(d, "add", p, "exception", <<>>)
               /\ UNCHANGED <<tree, committed, ops>>
          ELSE /\ Changes
               /\ tree' = SetRepo(d,
                    [r EXCEPT !.objects = StoreBlob(r.objects, h, ReadFile(d, p)),
                              !.index_file = TRUE,
                              !.index = AppendIndex(r.index, p, h)])
               /\ out' = Result(d, "add", p, "ok", <<>>)
               /\ UNCHANGED committed

(* ------------------------------- commit -------------------------------- *)

\* a guard without the size test
IndexIsEmptyNoSize(r) == ~r.index_file

\* not os.path.exists(index_file) or os.path.getsize(index_file) == 0
IndexIsEmpty(r) == ~r.index_file \/ r.index = <<>>

MessageLine(m) == RawLine("Message: " \o m)

\* a record that holds the index content only
CommitRecordNoMessage(m, index_content) == index_content

\* "Message: <message>\n" followed by the index content
CommitRecord(m, index_content) == <<MessageLine(m)>> \o index_content

commit_hash(r) == sha1(r.index)

\* a record written only when none is stored under the identifier
WriteCommitObjectIfAbsent(r, m) ==
    [r EXCEPT !.objects = StoreBlob(r.objects, commit_hash(r), CommitRecord(m, r.index))]

\* open(commit_path, "w"): creates or truncates the object file
WriteCommitObject(r, m) ==
    [r EXCEPT !.objects = Put(r.objects, commit_hash(r), CommitRecord(m, r.index))]

\* open(branch_path, "w"): the log holds the new id only
AppendRefTruncate(refs, b, h) == Put(refs, b, <<h>>)

\* open(branch_path, "a"); write "<commit_hash>\n"
AppendRef(refs, b, h) ==
    Put(refs, b, (IF b \in DOMAIN refs THEN refs[b] ELSE <<>>) \o <<h>>)

\* an index left as it was
ClearIndexKeep(index) == index

\* open(index_file, "w"): truncate
ClearIndex(index) == <<>>

commit(d, m) ==
    /\ tree[d].exists
    /\ LET r == Repo(d)
           h == commit_hash(r)
           r1 == WriteCommitObject(r, m)
           r2 == [r1 EXCEPT !.refs = AppendRef(r1.refs, branch_path(r1), h)]
           r3 == [r2 EXCEPT !.index = ClearIndex(r2.index)]
       IN IF IndexIsEmpty(r)
          THEN /\ out' = Result(d, "commit", m, "NothingToCommit", <<>>)
               /\ UNCHANGED <<tree, committed, ops>>
          ELSE /\ Changes
               /\ tree' = SetRepo(d, r3)
               /\ committed' = [committed EXCEPT ![d] = Append(@, m)]
               /\ out' = Result(d, "commit", m, "ok", <<>>)

\* the order: write the object, truncate the index, append to the log
CommitStepsClearEarly(r, m, n) ==
    LET r1 == WriteCommitObject(r, m)
        r2 == [r1 EXCEPT !.index = ClearIndex(r1.index)]
        r3 == [r2 EXCEPT !.refs = AppendRef(r2.refs, branch_path(r2), commit_hash(r))]
    IN IF n = 0 THEN r ELSE IF n = 1 THEN r1 ELSE IF n = 2 THEN r2 ELSE r3

\* the order: append to the log, write the object, truncate the index
CommitStepsAppendFirst(r, m, n) ==
    LET r1 == [r EXCEPT !.refs = AppendRef(r.refs, branch_path(r), commit_hash(r))]
        r2 == [r1 EXCEPT !.objects = WriteCommitObject(r, m).objects]
        r3 == [r2 EXCEPT !.index = ClearIndex(r2.index)]
    IN IF n = 0 THEN r ELSE IF n = 1 THEN r1 ELSE IF n = 2 THEN r2 ELSE r3

\* the .minigit after the first n of commit's three writes, in the order of
\* the code: the object file, the reference log, the index
CommitSteps(r, m, n) ==
    LET r1 == WriteCommitObject(r, m)
        r2 == [r1 EXCEPT !.refs = AppendRef(r1.refs, branch_path(r1), commit_hash(r))]
        r3 == [r2 EXCEPT !.index = ClearIndex(r2.index)]
    IN IF n = 0 THEN r ELSE IF n = 1 THEN r1 ELSE IF n = 2 THEN r2 ELSE r3

KilledStatus(n) ==
    IF n = 0 THEN "KilledBeforeWrite" ELSE IF n = 1 THEN "KilledAfterWrite"
    ELSE IF n = 2 THEN "KilledAfterAppend" ELSE "KilledAfterClear"

\* a commit that passed its guard and whose process is ended after n of
\* its writes: nothing is printed and nothing is rolled back
commit_killed(d, m, n) ==
    /\ tree[d].exists
    /\ ~IndexIsEmpty(Repo(d))
    /\ Changes
    /\ tree' = SetRepo(d, CommitSteps(Repo(d), m, n))
    /\ committed' = [committed EXCEPT ![d] = IF n = 3 THEN Append(@, m) ELSE @]
    /\ out' = Result(d, "commit", m, KilledStatus(n), <<>>)

(* -------------------------------- log ---------------------------------- *)

\* readline().strip(): the first line of the object, without the newline.
\* Lines of the model carry no leading or trailing blanks.
FirstLine(bytes) == IF bytes = <<>> THEN RawLine("") ELSE bytes[1]

\* the ids of the reference log up to, not including, the first one whose
\* object is missing (open(commit_path) raises there)
RECURSIVE Readable(_, _)
Readable(objects, ids) ==
    IF ids = <<>> \/ ids[1] \notin DOMAIN objects THEN <<>>
    ELSE <<ids[1]>> \o Readable(objects, Tail(ids))

\* the lines log prints after "Commit history:", as <<hash, message line>>
LogLines(r) ==
    LET ids == Readable(r.objects, RefLog(r))
    IN [i \in 1..Len(ids) |-> <<ids[i], FirstLine(r.objects[ids[i]])>>]

\* a log that opens the reference log without looking for it first
LogStatusNoCheck(r) ==
    IF ~r.head_file \/ branch_path(r) \notin DOMAIN r.refs THEN "exception"
    ELSE IF Len(LogLines(r)) < Len(RefLog(r)) THEN "exception"
    ELSE "ok"

LogStatus(r) ==
    IF ~r.head_file THEN "exception"
    ELSE IF branch_path(r) \notin DOMAIN r.refs THEN "NoHistory"
    ELSE IF Len(LogLines(r)) < Len(RefLog(r)) THEN "exception"
    ELSE "ok"

log(d) ==
    /\ tree[d].exists
    /\ out' = Result(d, "log", "", LogStatus(Repo(d)),
                     IF Repo(d).head_file THEN LogLines(Repo(d)) ELSE <<>>)
    /\ UNCHANGED <<tree, committed, ops>>

(* ------------------------------- clone --------------------------------- *)

\* a check for a repository at the target instead of for the target
TargetHasRepo(d, t) == t \in Dirs /\ tree[t].minigit.repo_dir

\* os.path.exists(target_dir), the target named relative to the directory
\* the command runs in
TargetExists(d, t) == IF t \in Dirs THEN tree[t].exists ELSE t \in DOMAIN tree[d].files

\* a copy of the object store, index and HEAD that leaves the logs behind
CopyTreeNoRefs(r) == [r EXCEPT !.refs = <<>>]

\* shutil.copytree(".minigit", target_dir/.minigit)
CopyTree(r) == r

clone(d, t) ==
    /\ tree[d].exists
    /\ IF TargetExists(d, t)
       THEN /\ out' = Result(d, "clone", t, "DestinationExists", <<>>)
            /\ UNCHANGED <<tree, committed, ops>>
       ELSE IF ~Repo(d).repo_dir
       THEN \* copytree scans the missing source before creating the target
            /\ out' = Result(d, "clone", t, "exception", <<>>)
            /\ UNCHANGED <<tree, committed, ops>>
       ELSE /\ Changes
            /\ tree' = [tree EXCEPT ![t] =
                          [exists |-> TRUE, files |-> <<>>,
                           minigit |-> CopyTree(Repo(d))]]
            /\ committed' = [committed EXCEPT ![t] = committed[d]]
            /\ out' = Result(d, "clone", t, "ok", <<>>)

(* ----------------------------- environment ----------------------------- *)

\* the user writes a file of the working area (create_test_file)
WriteFile(d, p, c) ==
    /\ tree[d].exists
    /\ ReadFile(d, p) # c \/ ~FileExists(d, p)
    /\ Changes
    /\ tree' = [tree EXCEPT ![d].files = Put(@, p, c)]
    /\ out' = Result(d, "write", p, "ok", <<>>)
    /\ UNCHANGED committed

\* the user creates a directory (os.makedirs("existing_dir"))
MakeDir(t) ==
    /\ ~tree[t].exists
    /\ Changes
    /\ tree' = [tree EXCEPT ![t].exists = TRUE]
    /\ out' = Result(Cwd, "mkdir", t, "ok", <<>>)
    /\ UNCHANGED committed

(* ---------------------------- specification ---------------------------- *)

Init ==
    /\ tree = [d \in Dirs |-> IF d = Cwd THEN [NoDir EXCEPT !.exists = TRUE] ELSE NoDir]
    /\ committed = [d \in Dirs |-> <<>>]
    /\ out = Result(Cwd, "start", "", "ok", <<>>)
    /\ ops = 0

\* A command runs in the directory the process was started in: the first
\* working directory, or a clone of it once that exists.  clone is given a
\* target directory, or the name of a working file.
DoInit == \E d \in Dirs : init(d)
DoAdd == \E d \in Dirs, p \in Paths : add(d, p)
DoCommit == \E d \in Dirs, m \in Messages : commit(d, m)
DoLog == \E d \in Dirs : log(d)
DoClone == \E t \in Targets \cup DOMAIN tree[Cwd].files : clone(Cwd, t)
DoWriteFile == \E d \in Dirs, f \in FileInputs : WriteFile(d, f[1], f[2])
DoMakeDir == \E t \in Targets : MakeDir(t)

Next ==
    \/ DoInit
    \/ DoAdd
    \/ DoCommit
    \/ DoLog
    \/ DoClone
    \/ DoWriteFile
    \/ DoMakeDir

Spec == Init /\ [][Next]_vars

\* The same commands, where in addition the process of a commit in the first
\* working directory may be ended between two of its writes (after the
\* first, or after the second).
DoCommitKilled == \E m \in Messages, n \in 1..2 : commit_killed(Cwd, m, n)

NextKill ==
    \/ Next
    \/ DoCommitKilled

SpecKill == Init /\ [][NextKill]_vars

(* ------------------------------ properties ----------------------------- *)

IsPrefix(s, t) == Len(s) <= Len(t) /\ SubSeq(t, 1, Len(s)) = s

\* the step is a run of command op in directory d
Ran(d, op) == out'.op = op /\ out'.cwd = d

RepoAfter(d) == tree'[d].minigit

Staged(d) == tree[d].minigit.index

Store(d) == tree[d].minigit.objects

\* the messages log shows for d, in the order it shows them
LogMessages(d) == [i \in 1..Len(LogLines(Repo(d))) |-> LogLines(Repo(d))[i][2]]

\* C1: in every repository, log lists one entry per successful commit, in
\* commit order, and entry i carries the message given to commit i.
C1_LogShowsCommitMessages ==
    \A d \in Dirs :
        Repo(d).repo_dir =>
            /\ Len(LogLines(Repo(d))) = Len(committed[d])
            /\ \A i \in 1..Len(committed[d]) :
                   /\ LogLines(Repo(d))[i][1] = RefLog(Repo(d))[i]
                   /\ LogMessages(d)[i] = MessageLine(committed[d][i])

\* C2: no command changes the bytes stored under an identifier that is
\* already in the object store.
C2_StoreEntriesNeverRewritten ==
    [][\A d \in Dirs : \A k \in DOMAIN Store(d) :
           /\ k \in DOMAIN RepoAfter(d).objects
           /\ RepoAfter(d).objects[k] = Store(d)[k]]_vars

\* C3: a commit run with a non-empty index succeeds, leaves the index empty
\* and makes the active branch's reference log exactly one entry longer.
C3_CommitClearsIndexAndAppendsOne ==
    [][\A d \in Dirs :
           (Ran(d, "commit") /\ Repo(d).index_file /\ Staged(d) # <<>>) =>
               /\ out'.status = "ok"
               /\ RepoAfter(d).index = <<>>
               /\ Len(RefLog(RepoAfter(d))) = Len(RefLog(Repo(d))) + 1]_vars

C3_Witness ==
    /\ out.op = "commit" /\ out.status = "ok" /\ out.cwd = Cwd
    /\ Staged(Cwd) = <<>>
    /\ Len(RefLog(Repo(Cwd))) = 2

\* C4: a commit run while the index is empty (or absent) reports
\* NothingToCommit and changes nothing: store, reference log and index stay.
C4_EmptyCommitFailsUnchanged ==
    [][\A d \in Dirs :
           (Ran(d, "commit") /\ (~Repo(d).index_file \/ Staged(d) = <<>>)) =>
               /\ out'.status = "NothingToCommit"
               /\ tree' = tree]_vars

C4_Witness ==
    /\ out.op = "commit" /\ out.status = "NothingToCommit"
    /\ Repo(out.cwd).repo_dir
    /\ Len(RefLog(Repo(out.cwd))) >= 1
    /\ Staged(out.cwd) = <<>>

\* C5: the reference log of a repository only grows at its end: the log
\* before any step is a prefix of the log after it, and a step that changes
\* it is a commit run in that repository.
C5_RefLogAppendOnly ==
    [][\A d \in Dirs :
           Repo(d).repo_dir =>
               /\ IsPrefix(RefLog(Repo(d)), RefLog(RepoAfter(d)))
               /\ RefLog(RepoAfter(d)) # RefLog(Repo(d)) => Ran(d, "commit")]_vars

C5_Witness ==
    /\ Len(RefLog(Repo(Cwd))) = 2
    /\ RefLog(Repo(Cwd))[1] # RefLog(Repo(Cwd))[2]

\* C6: add of a path that is not in the working area reports FileNotFound
\* and changes neither the index nor the object store.
C6_AddMissingFileUnchanged ==
    [][\A d \in Dirs :
           (Ran(d, "add") /\ out'.arg \notin DOMAIN tree[d].files) =>
               /\ out'.status = "FileNotFound"
               /\ tree' = tree]_vars

C6_Witness ==
    /\ out.op = "add" /\ out.status = "FileNotFound"
    /\ Repo(out.cwd).repo_dir
    /\ Staged(out.cwd) # <<>>

\* C7: when a file is staged whose content another, already staged file
\* has, the add stores no new object (the store is unchanged and holds an
\* object under the content's hash) and still appends its own index entry.
C7_SameContentOneObject ==
    [][\A d \in Dirs : \A p \in Paths :
           (/\ Ran(d, "add") /\ out'.arg = p /\ out'.status = "ok"
            /\ p \in DOMAIN tree[d].files
            /\ \E i \in 1..Len(Staged(d)) :
                   /\ Staged(d)[i][1] # p
                   /\ Staged(d)[i][2] = sha1(tree[d].files[p])) =>
               /\ RepoAfter(d).objects = Store(d)
               /\ sha1(tree[d].files[p]) \in DOMAIN Store(d)
               /\ RepoAfter(d).index =
                      Append(Staged(d), <<p, sha1(tree[d].files[p])>>)]_vars

C7_Witness ==
    /\ out.op = "add" /\ out.status = "ok" /\ out.cwd = Cwd
    /\ Staged(Cwd) = << <<"a.txt", 1>>, <<"b.txt", 1>> >>
    /\ DOMAIN Store(Cwd) = {1}
    /\ Store(Cwd)[1] = ContentSeq[1]

\* C8: a successful add appends one (path, hash) entry to the index and
\* keeps every earlier entry, and a successful commit stores the message
\* line followed by the whole index, in staging order; so a path staged
\* twice is in the commit record twice.
C8_IndexIsAppendLog ==
    [][\A d \in Dirs :
           /\ (Ran(d, "add") /\ out'.status = "ok") =>
                  RepoAfter(d).index =
                      Append(Staged(d), <<out'.arg, sha1(tree[d].files[out'.arg])>>)
           /\ (Ran(d, "commit") /\ out'.status = "ok") =>
                  /\ sha1(Staged(d)) \in DOMAIN RepoAfter(d).objects
                  /\ RepoAfter(d).objects[sha1(Staged(d))] =
                         <<MessageLine(out'.arg)>> \o Staged(d)]_vars

C8_Witness ==
    /\ out.op = "commit" /\ out.status = "ok"
    /\ \E k \in DOMAIN Store(out.cwd) :
           /\ Store(out.cwd)[k] =
                  <<MessageLine(out.arg), <<"a.txt", 1>>, <<"a.txt", 1>> >>
           /\ k = RefLog(Repo(out.cwd))[Len(RefLog(Repo(out.cwd)))]

\* C9: clone of a repository into a target that does not exist succeeds,
\* gives the target a .minigit equal to the source's (object store, index,
\* HEAD, reference logs) and leaves the source directory as it was.
C9_CloneCopiesRepository ==
    [][\A t \in Targets :
           (/\ Ran(Cwd, "clone") /\ out'.arg = t
            /\ ~tree[t].exists /\ Repo(Cwd).repo_dir) =>
               /\ out'.status = "ok"
               /\ tree'[t].exists
               /\ RepoAfter(t) = Repo(Cwd)
               /\ tree'[Cwd] = tree[Cwd]]_vars

C9_Witness ==
    /\ out.op = "clone" /\ out.status = "ok"
    /\ Repo(out.arg) = Repo(Cwd)
    /\ Len(RefLog(Repo(out.arg))) >= 1
    /\ Staged(out.arg) # <<>>
    /\ DOMAIN Store(out.arg) # {}

\* C10: clone into a target that exists, a directory or a file, reports
\* DestinationExists and writes nothing: the whole file system is unchanged.
C10_CloneIntoExistingFails ==
    [][\A d \in Dirs :
           (/\ Ran(d, "clone")
            /\ IF out'.arg \in Dirs THEN tree[out'.arg].exists
               ELSE out'.arg \in DOMAIN tree[d].files) =>
               /\ out'.status = "DestinationExists"
               /\ tree' = tree]_vars

C10_Witness ==
    /\ out.op = "clone" /\ out.status = "DestinationExists"
    /\ out.arg \in Targets
    /\ Repo(Cwd).repo_dir
    /\ Len(RefLog(Repo(Cwd))) >= 1

\* C11: an add or a commit run in one directory leaves every other
\* directory, its .minigit included, as it was: a clone and its source do
\* not share state.
C11_CloneIsIndependent ==
    [][\A d \in Dirs : \A e \in Dirs \ {d} :
           (Ran(d, "add") \/ Ran(d, "commit")) => tree'[e] = tree[e]]_vars

C11_Witness ==
    /\ out.op = "commit" /\ out.status = "ok" /\ out.cwd = Cwd
    /\ \E t \in Targets :
           /\ Repo(t).repo_dir
           /\ Len(RefLog(Repo(t))) = 1
           /\ Len(RefLog(Repo(Cwd))) = 2
           /\ RefLog(Repo(Cwd))[1] = RefLog(Repo(t))[1]
           /\ Store(t) # Store(Cwd)

\* C12: init where there is no repository makes an empty object store, an
\* empty index and a HEAD naming main, with no reference log; init where a
\* repository exists reports AlreadyInitialized and changes nothing.
C12_InitCreatesOrReports ==
    [][\A d \in Dirs :
           /\ (Ran(d, "init") /\ ~Repo(d).repo_dir) =>
                  /\ out'.status = "ok"
                  /\ RepoAfter(d) =
                         [repo_dir |-> TRUE, objects_dir |-> TRUE, objects |-> <<>>,
                          index_file |-> TRUE, index |-> <<>>,
                          head_file |-> TRUE, HEAD |-> "main", refs |-> <<>>]
           /\ (Ran(d, "init") /\ Repo(d).repo_dir) =>
                  /\ out'.status = "AlreadyInitialized"
                  /\ tree' = tree]_vars

C12_Witness ==
    /\ out.op = "init" /\ out.status = "AlreadyInitialized"
    /\ Len(RefLog(Repo(out.cwd))) >= 1
    /\ Staged(out.cwd) # <<>>

\* the repository right after init, with a.txt holding "hello" staged once
FreshWithHelloStaged ==
    [repo_dir |-> TRUE, objects_dir |-> TRUE,
     objects |-> (sha1(ContentSeq[1]) :> ContentSeq[1]),
     index_file |-> TRUE, index |-> << <<"a.txt", sha1(ContentSeq[1])>> >>,
     head_file |-> TRUE, HEAD |-> "main", refs |-> <<>>]

\* C13: in a fresh repository with a.txt ("hello") staged, commit "first"
\* gives a log of exactly one entry, whose message line is that of "first",
\* a reference log of exactly one identifier, and an object store of
\* exactly two entries, the blob and the commit record.
C13_FirstCommitScenario ==
    [][\A d \in Dirs :
           (/\ Ran(d, "commit") /\ out'.arg = "first"
            /\ Repo(d) = FreshWithHelloStaged) =>
               /\ out'.status = "ok"
               /\ LogStatus(RepoAfter(d)) = "ok"
               /\ Len(LogLines(RepoAfter(d))) = 1
               /\ LogLines(RepoAfter(d))[1][2] = RawLine("Message: first")
               /\ Len(RefLog(RepoAfter(d))) = 1
               /\ Cardinality(DOMAIN RepoAfter(d).objects) = 2
               /\ RepoAfter(d).objects[sha1(ContentSeq[1])] = ContentSeq[1]
               /\ RefLog(RepoAfter(d))[1] \in DOMAIN RepoAfter(d).objects]_vars

C13_Witness ==
    /\ out.op = "commit" /\ out.arg = "first" /\ out.status = "ok" /\ out.cwd = Cwd
    /\ committed[Cwd] = <<"first">>
    /\ Repo(Cwd) = [FreshWithHelloStaged EXCEPT
                       !.index = <<>>,
                       !.refs = ("main" :> <<sha1(FreshWithHelloStaged.index)>>),
                       !.objects = @ @@ (sha1(FreshWithHelloStaged.index) :>
                           <<RawLine("Message: first"), <<"a.txt", sha1(ContentSeq[1])>> >>)]

\* C14: in every state, each directory has all of the object store, the
\* index and HEAD, or none of them.
C14_AllOrNothingInitialized ==
    \A d \in Dirs :
        /\ Repo(d).objects_dir = Repo(d).repo_dir
        /\ Repo(d).index_file = Repo(d).repo_dir
        /\ Repo(d).head_file = Repo(d).repo_dir
        /\ ~Repo(d).repo_dir => Repo(d) = NoRepo

C14_Witness ==
    /\ out.op = "add" /\ out.status = "exception"
    /\ out.arg \in DOMAIN tree[out.cwd].files
    /\ ~Repo(out.cwd).repo_dir

\* C15: log in a repository whose active branch has no reference log file
\* reports NoHistory, lists nothing and changes nothing.
C15_LogWithoutHistory ==
    [][\A d \in Dirs :
           (/\ Ran(d, "log") /\ Repo(d).head_file
            /\ Repo(d).HEAD \notin DOMAIN Repo(d).refs) =>
               /\ out'.status = "NoHistory"
               /\ out'.lines = <<>>
               /\ tree' = tree]_vars

C15_Witness ==
    /\ out.op = "log" /\ out.status = "NoHistory"
    /\ Repo(out.cwd).repo_dir
    /\ Staged(out.cwd) # <<>>

\* C16: a successful commit of an index content that was committed before
\* under another message gets the identifier of that earlier commit; the
\* identifier is appended to the reference log again, no object is added,
\* and the one record under it now carries the new message.
C16_SameIndexSameIdentifier ==
    [][\A d \in Dirs :
           (/\ Ran(d, "commit") /\ out'.status = "ok"
            /\ \E i \in 1..Len(RefLog(Repo(d))) :
                   /\ RefLog(Repo(d))[i] = sha1(Staged(d))
                   /\ RefLog(Repo(d))[i] \in DOMAIN Store(d)
                   /\ Store(d)[RefLog(Repo(d))[i]] # <<RawLine("Message: " \o out'.arg)>> \o Staged(d)
                   /\ SubSeq(Store(d)[RefLog(Repo(d))[i]], 2, Len(Staged(d)) + 1) = Staged(d)) =>
               /\ RefLog(RepoAfter(d)) = Append(RefLog(Repo(d)), sha1(Staged(d)))
               /\ DOMAIN RepoAfter(d).objects = DOMAIN Store(d)
               /\ RepoAfter(d).objects[sha1(Staged(d))] =
                      <<RawLine("Message: " \o out'.arg)>> \o Staged(d)]_vars

C16_Witness ==
    /\ out.op = "commit" /\ out.status = "ok" /\ out.cwd = Cwd
    /\ committed[Cwd] = <<"first", "second">>
    /\ Len(RefLog(Repo(Cwd))) = 2
    /\ RefLog(Repo(Cwd))[1] = RefLog(Repo(Cwd))[2]
    /\ Store(Cwd)[RefLog(Repo(Cwd))[1]][1] = RawLine("Message: second")

\* the (path, hash) entries of d: those of the index, and those of the
\* records its reference log names (the lines after the message line)
Snapshot(d, k) == IF k \in DOMAIN Store(d) THEN Tail(Store(d)[k]) ELSE <<>>

Entries(d) ==
    {Staged(d)[i] : i \in 1..Len(Staged(d))} \cup
    UNION {{Snapshot(d, RefLog(Repo(d))[j])[i] :
               i \in 1..Len(Snapshot(d, RefLog(Repo(d))[j]))} :
           j \in 1..Len(RefLog(Repo(d)))}

\* C17: for every entry (path, h) of the index or of a committed snapshot,
\* the object stored under h holds the bytes that were staged, that is, the
\* file content whose hash is h.
C17_ObjectsHoldStagedBytes ==
    \A d \in Dirs : \A e \in Entries(d) :
        /\ e[2] \in DOMAIN Store(d)
        /\ \E c \in Contents : sha1(c) = e[2] /\ Store(d)[e[2]] = c

\* C18: a commit ended after its first write leaves the record in the store,
\* the reference log and the index as they were; ended after its second
\* write it leaves the identifier appended and the index still staged; and
\* no commit step, ended or not, empties the index without the identifier
\* of the staged content being the last of the reference log.
C18_CommitWriteOrder ==
    [][\A d \in Dirs :
           (Ran(d, "commit") /\ Repo(d).index_file /\ Staged(d) # <<>>) =>
               /\ sha1(Staged(d)) \in DOMAIN RepoAfter(d).objects
               /\ RepoAfter(d).objects[sha1(Staged(d))] =
                      <<RawLine("Message: " \o out'.arg)>> \o Staged(d)
               /\ out'.status = "KilledAfterWrite" =>
                      /\ RefLog(RepoAfter(d)) = RefLog(Repo(d))
                      /\ RepoAfter(d).index = Staged(d)
               /\ out'.status = "KilledAfterAppend" =>
                      /\ RefLog(RepoAfter(d)) = Append(RefLog(Repo(d)), sha1(Staged(d)))
                      /\ RepoAfter(d).index = Staged(d)
               /\ RepoAfter(d).index = <<>> =>
                      RefLog(RepoAfter(d)) = Append(RefLog(Repo(d)), sha1(Staged(d)))]_vars

C18_Witness ==
    /\ out.op = "commit" /\ out.status = "KilledAfterAppend"
    /\ Staged(out.cwd) # <<>>
    /\ Len(RefLog(Repo(out.cwd))) >= 2
    /\ RefLog(Repo(out.cwd))[Len(RefLog(Repo(out.cwd)))] = sha1(Staged(out.cwd))

\* the reference log of d before the ended commit that out reports
RefLogBeforeKill(d) ==
    IF out.status = "KilledAfterAppend"
    THEN SubSeq(RefLog(Repo(d)), 1, Len(RefLog(Repo(d))) - 1)
    ELSE RefLog(Repo(d))

\* C19: a commit run right after a commit that was ended between its writes
\* ends as the commit would have ended without the interruption: the index
\* empty, the reference log one entry longer than before the ended commit.
C19_RerunResolvesInterruptedCommit ==
    [][\A d \in Dirs :
           (/\ out.op = "commit" /\ out.cwd = d
            /\ out.status \in {"KilledAfterWrite", "KilledAfterAppend"}
            /\ Ran(d, "commit") /\ out'.status = "ok") =>
               /\ RepoAfter(d).index = <<>>
               /\ RefLog(RepoAfter(d)) =
                      Append(RefLogBeforeKill(d), sha1(Staged(d)))]_vars

\* C20: in every state, the states between the writes of a commit included,
\* every identifier of a reference log names an object of the store, and log
\* finds every record it opens.
C20_RefLogNamesStoredObjects ==
    \A d \in Dirs :
        /\ \A i \in 1..Len(RefLog(Repo(d))) : RefLog(Repo(d))[i] \in DOMAIN Store(d)
        /\ Repo(d).head_file => LogStatus(Repo(d)) \in {"ok", "NoHistory"}

C20_Witness ==
    /\ out.op = "commit" /\ out.status = "KilledAfterWrite"
    /\ Len(RefLog(Repo(out.cwd))) >= 1
    /\ \A i \in 1..Len(RefLog(Repo(out.cwd))) :
           RefLog(Repo(out.cwd))[i] # sha1(Staged(out.cwd))
    /\ sha1(Staged(out.cwd)) \in DOMAIN Store(out.cwd)

====
